---------------------------- MODULE Spec2Model ----------------------------
(***************************************************************************)
(* AuraStream: the asynchronous job lifecycle (admission, worker           *)
(* callbacks, status query) and the request validation of the sync and     *)
(* async handlers, as a state machine over the external stores.            *)
(*                                                                         *)
(* Every Lambda invocation is one action.  The external services           *)
(* (DynamoDB, S3, Step Functions, Comprehend) may fail on any call: the    *)
(* set of failing calls is an input of the action.                         *)
(***************************************************************************)
EXTENDS Integers, Sequences, FiniteSets, TLC

VARIABLES
    jobs,        \* DynamoDB job table: job_id -> item (DOMAIN = stored keys)
    documents,   \* S3 bucket: job_id -> text stored under documents/<job_id>.txt
    executions,  \* Step Functions: job_id -> input of the started execution
    issued,      \* uuid4 values generated so far
    cache,       \* DynamoDB cache table: text_hash -> item
    now,         \* the clock read by datetime.utcnow(), in seconds
    event,       \* the last invocation: its handler and, for the request
                 \* handlers, the request body and the calls set to fail
    calls,       \* the external calls the last invocation made, in order
    response,    \* what the last invocation returned (or that it raised)
    workflow,    \* the workflow engine: job_id -> state of the execution
    pending      \* concurrent cache writers: process -> the item it has
                 \* built and not yet put

vars == <<jobs, documents, executions, issued, cache, now, event, calls,
          response, workflow, pending>>

-----------------------------------------------------------------------------
(* Bounds of the model. *)

MaxClock == 1        \* the clock runs over 0..MaxClock

(* Program constants. *)

MAX_TEXT_LENGTH_SYNC == 5000
MAX_TEXT_LENGTH_ASYNC == 1048576
CACHE_TTL_DEFAULT == 86400
COMPREHEND_REALTIME_MAX == 5000
VALIDATION_ERROR == 400
NOT_FOUND == 404
INTERNAL_ERROR == 500
ACCEPTED == 202
OK == 200

-----------------------------------------------------------------------------
(* Python values. *)

None == "None"                    \* None where the value is a string
NoInt == 0 - 1                    \* None where the value is a number
NoneDict == [py |-> "None"]       \* None where the value is a dict
EmptyDict == [py |-> "dict"]      \* {}

\* bool(d) of an Optional[dict]
Truthy(d) == d.py = "dict" /\ DOMAIN d # {"py"}

-----------------------------------------------------------------------------
(* Texts: run-length encoded strings, <<[ch, n], ...>> is ch repeated n    *)
(* times, run after run.  This keeps texts of a million characters small.  *)

Str(c, k) == IF k = 0 THEN <<>> ELSE <<[ch |-> c, n |-> k]>>

RECURSIVE TextLen(_)
TextLen(t) == IF t = <<>> THEN 0 ELSE Head(t).n + TextLen(Tail(t))

IsSpace(c) == c = " "

RECURSIVE LStrip(_)
LStrip(t) ==
    IF t = <<>> THEN <<>>
    ELSE IF IsSpace(Head(t).ch) THEN LStrip(Tail(t)) ELSE t

RECURSIVE RStrip(_)
RStrip(t) ==
    IF t = <<>> THEN <<>>
    ELSE IF IsSpace(t[Len(t)].ch) THEN RStrip(SubSeq(t, 1, Len(t) - 1)) ELSE t

\* str.strip()
Strip(t) == RStrip(LStrip(t))

\* InputValidator.validate_text_security: of its patterns only the first
\* command injection pattern (one of the shell metacharacters) can match a
\* text over the alphabet of the model.
ShellChars == {";", "&", "|", "$"}
IsSafe(t) == \A i \in 1..Len(t) : t[i].ch \notin ShellChars


-----------------------------------------------------------------------------
(* Identifiers. *)

Uuids == {"u1"}                   \* values uuid.uuid4() can return
UNKNOWN_JOB == "unknown"          \* event.get("job_id", "unknown")
RequestIds == {"rq1"}             \* context.aws_request_id
SourceIds == {None, "src-1"}      \* request.source_id

-----------------------------------------------------------------------------
(* What an invocation returns. *)

\* An API Gateway error response: {"statusCode", body.error.code, .message}.
\* It has no job_id field.
ErrorResponse(status_code, error_code, message) ==
    [kind |-> "error", statusCode |-> status_code, code |-> error_code,
     message |-> message, job_id |-> None, status |-> None]

\* The invocation ended with an exception leaving the handler.
Raised(exc) ==
    [kind |-> "raised", statusCode |-> 0, code |-> exc, message |-> None,
     job_id |-> None, status |-> None]

-----------------------------------------------------------------------------
(* The key-value store and the object store. *)

\* table.put_item(Item=item) / s3.put_object: unconditional write of the key
Put(store, key, value) ==
    [k \in DOMAIN store \cup {key} |-> IF k = key THEN value ELSE store[k]]

-----------------------------------------------------------------------------
(* Asynchronous admission: src/handlers/async_handler.py *)

\* AsyncRequestValid with the length limit applied to the stripped text
AsyncRequestValid_AfterStrip(body) ==
    /\ body.kind = "json"
    /\ body.has_text
    /\ Strip(body.text) # <<>>
    /\ TextLen(Strip(body.text)) <= MAX_TEXT_LENGTH_ASYNC

\* AsyncSentimentAnalysisRequest(**request_data): the text is required, has
\* max_length 1048576 (checked on the text as sent) and must not be blank.
AsyncRequestValid(body) ==
    /\ body.kind = "json"
    /\ body.has_text
    /\ TextLen(body.text) <= MAX_TEXT_LENGTH_ASYNC
    /\ Strip(body.text) # <<>>

\* NewJobItem without the caller's source_id
NewJobItem_NoSourceId(request, request_id, ts) ==
    [status |-> "PROCESSING", created_at |-> ts, updated_at |-> NoInt,
     completed_at |-> NoInt, source_id |-> None,
     text_length |-> TextLen(request.text),
     options |-> IF Truthy(request.options) THEN request.options ELSE EmptyDict,
     request_id |-> request_id, result |-> NoneDict, error |-> NoneDict]

\* NewJobItem with the response model's other initial status
NewJobItem_Submitted(request, request_id, ts) ==
    [status |-> "SUBMITTED", created_at |-> ts, updated_at |-> NoInt,
     completed_at |-> NoInt, source_id |-> request.source_id,
     text_length |-> TextLen(request.text),
     options |-> IF Truthy(request.options) THEN request.options ELSE EmptyDict,
     request_id |-> request_id, result |-> NoneDict, error |-> NoneDict]

\* _store_job's item
NewJobItem(request, request_id, ts) ==
    [status |-> "PROCESSING",
     created_at |-> ts,
     updated_at |-> NoInt,
     completed_at |-> NoInt,
     source_id |-> request.source_id,
     text_length |-> TextLen(request.text),
     options |-> IF Truthy(request.options) THEN request.options ELSE EmptyDict,
     request_id |-> request_id,
     result |-> NoneDict,
     error |-> NoneDict]

\* _start_step_function's execution_input
ExecutionInput(job_id, request, request_id) ==
    [job_id |-> job_id,
     source_id |-> request.source_id,
     options |-> IF Truthy(request.options) THEN request.options ELSE EmptyDict,
     request_id |-> request_id]

\* EstimatedCompletionMs with the additional time in whole seconds
EstimatedCompletionMs_WholeSeconds(text, ts) ==
    ts * 1000 + 30 * 1000 + (TextLen(text) \div 1000) * 1000

\* _calculate_estimated_completion, in milliseconds:
\* now + 30 s + len(text) / 1000 s
EstimatedCompletionMs(text, ts) == ts * 1000 + 30 * 1000 + TextLen(text)

AsyncJobResponse(job_id, text, ts) ==
    [kind |-> "accepted", statusCode |-> ACCEPTED, code |-> None,
     message |-> "Job submitted successfully", job_id |-> job_id,
     status |-> "PROCESSING",
     estimated_completion_ms |-> EstimatedCompletionMs(text, ts),
     created_at |-> ts]

\* AdmissionSteps with the document written before the job record
AdmissionSteps_DocumentFirst ==
    <<"store_document", "store_job", "start_step_function">>

\* The three steps of an admission, in the order the handler runs them
AdmissionSteps == <<"store_job", "store_document", "start_step_function">>

\* StepFailed with a compensating rollback of the invocation's writes
StepFailed_Rollback(acc, cs, message) ==
    [acc EXCEPT !.calls = @ \o cs, !.failure = message, !.jobs = jobs,
                !.documents = documents]

\* A step returned False after the calls cs: the handler returns the error
\* response with this message.  Nothing stored before is undone.
StepFailed(acc, cs, message) ==
    [acc EXCEPT !.calls = @ \o cs, !.failure = message]

\* _store_job, _store_document, _start_step_function on the stores in acc.
\* failing is the set of external calls that raise in this invocation,
\* arn_set whether STEP_FUNCTION_ARN is configured.
StepEffect(acc, step, ctx) ==
    CASE step = "store_job" ->
           IF "dynamodb.put_item" \in ctx.failing
           THEN StepFailed(acc, <<"dynamodb.put_item">>,
                           "Failed to store job information")
           ELSE [acc EXCEPT
                   !.jobs = Put(@, ctx.job_id,
                                NewJobItem(ctx.request, ctx.request_id, now)),
                   !.calls = Append(@, "dynamodb.put_item")]
      [] step = "store_document" ->
           IF "s3.put_object" \in ctx.failing
           THEN StepFailed(acc, <<"s3.put_object">>, "Failed to store document")
           ELSE [acc EXCEPT
                   !.documents = Put(@, ctx.job_id, ctx.request.text),
                   !.calls = Append(@, "s3.put_object")]
      [] step = "start_step_function" ->
           IF ~ctx.arn_set
           THEN StepFailed(acc, <<>>, "Failed to start processing")
           ELSE IF "stepfunctions.start_execution" \in ctx.failing
           THEN StepFailed(acc, <<"stepfunctions.start_execution">>,
                           "Failed to start processing")
           ELSE [acc EXCEPT
                   !.executions =
                       Put(@, ctx.job_id,
                           ExecutionInput(ctx.job_id, ctx.request,
                                          ctx.request_id)),
                   !.calls = Append(@, "stepfunctions.start_execution")]

\* RunStep without the early return: the later steps run after a failure
RunStep_NoReturn(acc, step, ctx) ==
    IF acc.failure # None
    THEN [StepEffect(acc, step, ctx) EXCEPT !.failure = acc.failure]
    ELSE StepEffect(acc, step, ctx)

\* One step of the handler: after a failed step the handler has returned
RunStep(acc, step, ctx) ==
    IF acc.failure # None THEN acc ELSE StepEffect(acc, step, ctx)

RECURSIVE RunSteps(_, _, _)
RunSteps(acc, steps, ctx) ==
    IF steps = <<>> THEN acc
    ELSE RunSteps(RunStep(acc, Head(steps), ctx), Tail(steps), ctx)

\* lambda_handler: the stores after the invocation, the calls it made and
\* its response.  job_id is the value uuid.uuid4() returns.
AsyncOutcome(body, request_id, job_id, failing, arn_set) ==
    LET keep(r) ==
            [jobs |-> jobs, documents |-> documents, executions |-> executions,
             issued |-> issued, calls |-> <<>>, response |-> r]
        request == [text |-> Strip(body.text), source_id |-> body.source_id,
                    options |-> body.options]
        ctx == [job_id |-> job_id, request |-> request,
                request_id |-> request_id, failing |-> failing,
                arn_set |-> arn_set]
        acc == RunSteps([jobs |-> jobs, documents |-> documents,
                         executions |-> executions, calls |-> <<>>,
                         failure |-> None],
                        AdmissionSteps, ctx)
    IN
    IF body.kind = "null" THEN keep(Raised("TypeError"))
    ELSE IF body.kind = "not_json" THEN
        keep(ErrorResponse(VALIDATION_ERROR, "VALIDATION_ERROR",
                           "Invalid JSON in request body"))
    ELSE IF ~AsyncRequestValid(body) THEN
        keep(ErrorResponse(VALIDATION_ERROR, "VALIDATION_ERROR",
                           "Invalid request data"))
    ELSE IF ~IsSafe(request.text) THEN
        keep(ErrorResponse(VALIDATION_ERROR, "VALIDATION_ERROR",
                           "Text contains potentially malicious content"))
    ELSE IF TextLen(request.text) > MAX_TEXT_LENGTH_ASYNC THEN
        keep(ErrorResponse(VALIDATION_ERROR, "VALIDATION_ERROR",
                           "Text exceeds maximum length"))
    ELSE
        [jobs |-> acc.jobs, documents |-> acc.documents,
         executions |-> acc.executions, issued |-> issued \cup {job_id},
         calls |-> acc.calls,
         response |->
             IF acc.failure # None
             THEN ErrorResponse(INTERNAL_ERROR, "INTERNAL_ERROR", acc.failure)
             ELSE AsyncJobResponse(job_id, request.text, now)]

AsyncHandler(body, request_id, job_id, failing, arn_set) ==
    LET out == AsyncOutcome(body, request_id, job_id, failing, arn_set) IN
    /\ job_id \notin issued
    /\ jobs' = out.jobs
    /\ documents' = out.documents
    /\ executions' = out.executions
    /\ issued' = out.issued
    /\ calls' = out.calls
    /\ response' = out.response
    /\ event' = [handler |-> "async", body |-> body, request_id |-> request_id,
                 failing |-> failing, uuid |-> job_id, arn_set |-> arn_set]
    /\ UNCHANGED <<cache, now>>

-----------------------------------------------------------------------------
(* The worker's job-store update.  The same function is defined in        *)
(* update_job_status_handler.py and in process_document_handler.py.       *)

\* The item table.update_item starts from when the key is not stored: the
\* store adds a new item, which holds only what the expression sets.
BlankItem ==
    [status |-> None, created_at |-> NoInt, updated_at |-> NoInt,
     completed_at |-> NoInt, source_id |-> None, text_length |-> NoInt,
     options |-> NoneDict, request_id |-> None, result |-> NoneDict,
     error |-> NoneDict]

\* ApplyUpdate that writes result and error as they were passed
ApplyUpdate_Overwrite(item, status, result, error, ts) ==
    [item EXCEPT
        !.status = status,
        !.updated_at = ts,
        !.result = result,
        !.completed_at = IF Truthy(result) THEN ts ELSE @,
        !.error = error]

\* The update expression applied to an item:
\* SET #status, #updated_at [, #result, #completed_at] [, #error]
ApplyUpdate(item, status, result, error, ts) ==
    [item EXCEPT
        !.status = status,
        !.updated_at = ts,
        !.result = IF Truthy(result) THEN result ELSE @,
        !.completed_at = IF Truthy(result) THEN ts ELSE @,
        !.error = IF Truthy(error) THEN error ELSE @]

\* _update_job_status(job_id, status, result, error) of
\* update_job_status_handler.py: the table after it, and what it returns.
UpdateJobStatus(table, job_id, status, result, error, ts, failing) ==
    IF "dynamodb.update_item" \in failing \/ job_id = None
    THEN [table |-> table, ok |-> FALSE]
    ELSE [table |-> Put(table, job_id,
                        ApplyUpdate(IF job_id \in DOMAIN table
                                    THEN table[job_id] ELSE BlankItem,
                                    status, result, error, ts)),
          ok |-> TRUE]

\* _update_job_status of process_document_handler.py (the same code)
ProcessUpdateJobStatus(table, job_id, status, result, error, ts, failing) ==
    IF "dynamodb.update_item" \in failing \/ job_id = None
    THEN [table |-> table, ok |-> FALSE]
    ELSE [table |-> Put(table, job_id,
                        ApplyUpdate(IF job_id \in DOMAIN table
                                    THEN table[job_id] ELSE BlankItem,
                                    status, result, error, ts)),
          ok |-> TRUE]

\* A call _update_job_status(job_id, status, result, error) and what it
\* returns
UpdateJobStatusCall(job_id, status, result, error, failing) ==
    LET upd == UpdateJobStatus(jobs, job_id, status, result, error, now,
                               failing)
    IN
    /\ event' = [handler |-> "_update_job_status",
                 body |-> [job_id |-> job_id, status |-> status,
                           result |-> result, error |-> error],
                 request_id |-> None, failing |-> failing]
    /\ jobs' = upd.table
    /\ calls' = <<"dynamodb.update_item">>
    /\ response' = [kind |-> "returned", statusCode |-> 0, code |-> None,
                    message |-> None, job_id |-> job_id, status |-> status,
                    value |-> upd.ok]
    /\ UNCHANGED <<documents, executions, issued, cache, now>>

-----------------------------------------------------------------------------
(* The update-job-status handler: src/handlers/update_job_status_handler.py *)

\* UpdateJobStatusHandler that answers 200 whatever _update_job_status
\* returned
UpdateJobStatusHandler_Swallow(ev, failing) ==
    LET status == IF ev.has_status THEN ev.status ELSE "PROCESSING"
        upd == UpdateJobStatus(jobs, ev.job_id, status, ev.result, ev.error,
                               now, failing)
    IN
    /\ event' = [handler |-> "update_job_status",
                 body |-> [job_id |-> ev.job_id], request_id |-> None,
                 failing |-> failing]
    /\ jobs' = upd.table
    /\ calls' = <<"dynamodb.update_item">>
    /\ response' = [kind |-> "updated", statusCode |-> OK, code |-> None,
                    message |-> None, job_id |-> ev.job_id,
                    status |-> status, updated_at |-> now]
    /\ UNCHANGED <<documents, executions, issued, cache, now>>

\* ev: [job_id, has_status, status, result, error]
UpdateJobStatusHandler(ev, failing) ==
    LET status == IF ev.has_status THEN ev.status ELSE "PROCESSING"
        upd == UpdateJobStatus(jobs, ev.job_id, status, ev.result, ev.error,
                               now, failing)
    IN
    /\ event' = [handler |-> "update_job_status",
                 body |-> [job_id |-> ev.job_id], request_id |-> None,
                 failing |-> failing]
    /\ IF ev.job_id = None
       THEN /\ jobs' = jobs
            /\ calls' = <<>>
            /\ response' = Raised("ValueError: Job ID is required")
       ELSE /\ jobs' = upd.table
            /\ calls' = <<"dynamodb.update_item">>
            /\ response' =
                 IF upd.ok
                 THEN [kind |-> "updated", statusCode |-> OK, code |-> None,
                       message |-> None, job_id |-> ev.job_id,
                       status |-> status, updated_at |-> now]
                 ELSE Raised("ValueError: Failed to update job status")
    /\ UNCHANGED <<documents, executions, issued, cache, now>>

-----------------------------------------------------------------------------
(* The process-document handler: src/handlers/process_document_handler.py *)

\* _get_document_from_s3: the text, or <<>> for None (no such key, or the
\* read failed)
GetDocumentFromS3(job_id, failing) ==
    IF "s3.get_object" \in failing \/ job_id \notin DOMAIN documents
    THEN <<>>
    ELSE documents[job_id]

\* _process_with_comprehend: the calls it makes, whether it raises, and its
\* result (without its scores and its ProcessedAt stamp).  sentiment is the
\* label Comprehend answers with.
ProcessWithComprehend(text, sentiment, ts, failing) ==
    IF TextLen(text) > COMPREHEND_REALTIME_MAX
    THEN \* _process_large_text_with_comprehend
         IF "s3.put_object" \in failing
         THEN [calls |-> <<"s3.put_object">>, raised |-> TRUE,
               result |-> NoneDict]
         ELSE IF "comprehend.start_sentiment_detection_job" \in failing
         THEN [calls |-> <<"s3.put_object",
                           "comprehend.start_sentiment_detection_job">>,
               raised |-> TRUE, result |-> NoneDict]
         ELSE [calls |-> <<"s3.put_object",
                           "comprehend.start_sentiment_detection_job">>,
               raised |-> FALSE,
               result |-> [py |-> "dict", Sentiment |-> "PROCESSING",
                           ProcessingMethod |-> "batch",
                           TextLength |-> TextLen(text)]]
    ELSE IF "comprehend.detect_sentiment" \in failing
         THEN [calls |-> <<"comprehend.detect_sentiment">>, raised |-> TRUE,
               result |-> NoneDict]
         ELSE [calls |-> <<"comprehend.detect_sentiment">>, raised |-> FALSE,
               result |-> [py |-> "dict", Sentiment |-> sentiment,
                           ProcessingMethod |-> "real-time",
                           TextLength |-> TextLen(text)]]

\* The error record of the except branch
ErrorInfo(exc, ts) ==
    [py |-> "dict", error |-> exc, error_type |-> "ValueError",
     failed_at |-> ts]

AnalysisErrorInfo(ts) ==
    [py |-> "dict", error |-> "analysis failed", error_type |-> "ClientError",
     failed_at |-> ts]

\* lambda_handler for an event that carries job_id
ProcessOutcome(job_id, sentiment, failing) ==
    LET text == GetDocumentFromS3(job_id, failing)
        pr == ProcessWithComprehend(text, sentiment, now, failing)
        done == ProcessUpdateJobStatus(jobs, job_id, "COMPLETED", pr.result,
                                       NoneDict, now, failing)
        failed(err) == ProcessUpdateJobStatus(jobs, job_id, "FAILED", NoneDict,
                                              err, now, failing)
    IN
    IF text = <<>>
    THEN [jobs |-> failed(ErrorInfo("Document not found", now)).table,
          calls |-> <<"s3.get_object", "dynamodb.update_item">>,
          response |-> Raised("ValueError: Document not found")]
    ELSE IF pr.raised
    THEN [jobs |-> failed(AnalysisErrorInfo(now)).table,
          calls |-> <<"s3.get_object">> \o pr.calls
                    \o <<"dynamodb.update_item">>,
          response |-> Raised("ClientError")]
    ELSE [jobs |-> done.table,
          calls |-> <<"s3.get_object">> \o pr.calls
                    \o <<"dynamodb.update_item">>,
          response |-> [kind |-> "processed", statusCode |-> OK,
                        code |-> None, message |-> None, job_id |-> job_id,
                        status |-> "COMPLETED", result |-> pr.result,
                        processed_at |-> now]]

\* One delivery of a started execution's input to the worker.
ProcessDocumentHandler(job_id, sentiment, failing) ==
    LET out == ProcessOutcome(job_id, sentiment, failing) IN
    /\ job_id \in DOMAIN executions
    /\ jobs' = out.jobs
    /\ calls' = out.calls
    /\ response' = out.response
    /\ event' = [handler |-> "process_document",
                 body |-> [job_id |-> job_id], request_id |-> None,
                 failing |-> failing]
    /\ UNCHANGED <<documents, executions, issued, cache, now>>

\* An event without job_id: the handler raises, and its except branch
\* updates the job "unknown".
ProcessDocumentNoJobId(failing) ==
    /\ jobs' = ProcessUpdateJobStatus(jobs, UNKNOWN_JOB, "FAILED", NoneDict,
                                      ErrorInfo("Job ID is required", now),
                                      now, failing).table
    /\ calls' = <<"dynamodb.update_item">>
    /\ response' = Raised("ValueError: Job ID is required")
    /\ event' = [handler |-> "process_document", body |-> EmptyDict,
                 request_id |-> None, failing |-> failing]
    /\ UNCHANGED <<documents, executions, issued, cache, now>>


-----------------------------------------------------------------------------
(* The status query: src/handlers/status_handler.py *)

\* InputValidator.validate_job_id: the id has the UUID format.  The ids of
\* the model that stand for strings of that format are the uuid4 values.
ValidateJobId(job_id) == job_id \in Uuids

SENTIMENT_TYPES == {"POSITIVE", "NEGATIVE", "NEUTRAL", "MIXED"}
JOB_STATUSES == {"PROCESSING", "COMPLETED", "FAILED"}

\* pydantic's validation of JobStatusResponse.result, an
\* Optional[SentimentAnalysisResponse]: sentiment and score are required.
ResultValidates(result) ==
    \/ result.py = "None"
    \/ /\ "sentiment" \in DOMAIN result
       /\ result.sentiment \in SENTIMENT_TYPES
       /\ "score" \in DOMAIN result
       /\ result.score \in 0..100

\* _get_job_status: the item, or None when there is none or the read failed
GetJobStatus(job_id, failing) ==
    IF "dynamodb.get_item" \in failing \/ job_id \notin DOMAIN jobs
    THEN [found |-> FALSE, item |-> BlankItem]
    ELSE [found |-> TRUE, item |-> jobs[job_id]]

\* The event carries "pathParameters": null
NO_PATH_PARAMETERS == "pathParameters: null"

\* job_id: the path parameter ("None": no such parameter, "": empty)
StatusOutcome(job_id, failing) ==
    LET got == GetJobStatus(job_id, failing)
        item == got.item
    IN
    IF job_id = NO_PATH_PARAMETERS THEN           \* None.get("job_id")
        [calls |-> <<>>,
         response |-> ErrorResponse(INTERNAL_ERROR, "INTERNAL_ERROR",
                                    "An internal error occurred")]
    ELSE IF job_id = None \/ job_id = "" THEN
        [calls |-> <<>>,
         response |-> ErrorResponse(VALIDATION_ERROR, "VALIDATION_ERROR",
                                    "Job ID is required")]
    ELSE IF ~ValidateJobId(job_id) THEN
        [calls |-> <<>>,
         response |-> ErrorResponse(VALIDATION_ERROR, "VALIDATION_ERROR",
                                    "Invalid job ID format")]
    ELSE IF ~got.found THEN
        [calls |-> <<"dynamodb.get_item">>,
         response |-> ErrorResponse(NOT_FOUND, "NOT_FOUND", "Job not found")]
    ELSE IF \/ item.created_at = NoInt            \* job_data["created_at"]
            \/ item.status \notin JOB_STATUSES    \* validate_status
            \/ ~ResultValidates(item.result)
    THEN
        [calls |-> <<"dynamodb.get_item">>,
         response |-> ErrorResponse(INTERNAL_ERROR, "INTERNAL_ERROR",
                                    "An internal error occurred")]
    ELSE
        [calls |-> <<"dynamodb.get_item">>,
         response |-> [kind |-> "status", statusCode |-> OK, code |-> None,
                       message |-> None, job_id |-> job_id,
                       status |-> item.status,
                       created_at |-> item.created_at,
                       completed_at |-> item.completed_at,
                       result |-> item.result, error |-> item.error,
                       source_id |-> item.source_id]]

StatusHandler(job_id, failing) ==
    LET out == StatusOutcome(job_id, failing) IN
    /\ calls' = out.calls
    /\ response' = out.response
    /\ event' = [handler |-> "status", body |-> [job_id |-> job_id],
                 request_id |-> None, failing |-> failing]
    /\ UNCHANGED <<jobs, documents, executions, issued, cache, now>>


-----------------------------------------------------------------------------
(* The result cache: src/cache/sentiment_cache.py *)

Lower(c) == IF c = "A" THEN "a" ELSE c

\* The run-length encoding with adjacent runs of one character merged
RECURSIVE Canon(_)
Canon(t) ==
    IF Len(t) < 2 THEN t
    ELSE IF t[1].ch = t[2].ch
         THEN Canon(<<[ch |-> t[1].ch, n |-> t[1].n + t[2].n]>>
                    \o SubSeq(t, 3, Len(t)))
         ELSE <<t[1]>> \o Canon(Tail(t))

\* NormalizeText without the replacement of whitespace runs
NormalizeText_NoCollapse(t) ==
    LET lowered == [i \in 1..Len(t) |-> [ch |-> Lower(t[i].ch), n |-> t[i].n]]
    IN Strip(Canon(lowered))

\* _normalize_text: text.lower().strip(), then re.sub(r'\s+', ' ', ...)
NormalizeText(t) ==
    LET lowered == [i \in 1..Len(t) |-> [ch |-> Lower(t[i].ch), n |-> t[i].n]]
        stripped == Strip(Canon(lowered))
    IN [i \in 1..Len(stripped) |->
           IF IsSpace(stripped[i].ch)
           THEN [ch |-> " ", n |-> 1] ELSE stripped[i]]

\* _generate_cache_key: the SHA-256 digest of the normalized text, which
\* the model takes to be collision free: the digest is the normalized text.
GenerateCacheKey(t) == NormalizeText(t)

\* IsExpired with the entry expiring at its expiry instant
IsExpired_AtExpiry(item, ts) == IF item.ttl = NoInt \/ item.ttl = 0 THEN TRUE
                                ELSE ts >= item.ttl

\* _is_expired
IsExpired(item, ts) == IF item.ttl = NoInt \/ item.ttl = 0 THEN TRUE
                       ELSE ts > item.ttl

\* GetCachedResult that returns the entries that have expired
GetCachedResult_ExpiredOnly(text, failing) ==
    LET key == GenerateCacheKey(text) IN
    IF "cache.get_item" \in failing THEN NoneDict
    ELSE IF key \notin DOMAIN cache THEN NoneDict
    ELSE IF ~IsExpired(cache[key], now) THEN NoneDict
    ELSE cache[key].sentiment_result

\* get_cached_result: the cached result, or None
GetCachedResult(text, failing) ==
    LET key == GenerateCacheKey(text) IN
    IF "cache.get_item" \in failing THEN NoneDict
    ELSE IF key \notin DOMAIN cache THEN NoneDict
    ELSE IF IsExpired(cache[key], now) THEN NoneDict
    ELSE cache[key].sentiment_result

\* StoreResult that stores under the key of the text as given
StoreResult_RawKey(text, result, ttl, failing) ==
    LET ttl_seconds == IF ttl = NoInt \/ ttl = 0 THEN CACHE_TTL_DEFAULT ELSE ttl
    IN
    IF "cache.put_item" \in failing THEN [table |-> cache, ok |-> FALSE]
    ELSE [table |-> Put(cache, text,
                        [sentiment_result |-> result, created_at |-> now,
                         ttl |-> now + ttl_seconds]),
          ok |-> TRUE]

\* store_result: the table after it and what it returns.  ttl = NoInt
\* stands for ttl=None.
StoreResult(text, result, ttl, failing) ==
    LET ttl_seconds == IF ttl = NoInt \/ ttl = 0 THEN CACHE_TTL_DEFAULT ELSE ttl
    IN
    IF "cache.put_item" \in failing THEN [table |-> cache, ok |-> FALSE]
    ELSE [table |-> Put(cache, GenerateCacheKey(text),
                        [sentiment_result |-> result, created_at |-> now,
                         ttl |-> now + ttl_seconds]),
          ok |-> TRUE]

\* DeleteResult that deletes the key of the text as given
DeleteResult_RawKey(text, failing) ==
    IF "cache.delete_item" \in failing THEN [table |-> cache, ok |-> FALSE]
    ELSE [table |-> [k \in DOMAIN cache \ {text} |-> cache[k]], ok |-> TRUE]

\* delete_result: the table after it and what it returns.  delete_item of
\* a key that is not stored succeeds.
DeleteResult(text, failing) ==
    LET key == GenerateCacheKey(text) IN
    IF "cache.delete_item" \in failing THEN [table |-> cache, ok |-> FALSE]
    ELSE [table |-> [k \in DOMAIN cache \ {key} |-> cache[k]], ok |-> TRUE]

\* One call of table.scan() returns one page of the table: at most
\* SCAN_PAGE_ITEMS items (the store's page is 1 MB of items), any of them.
\* clear_cache calls scan once and does not ask for the pages after it.
SCAN_PAGE_ITEMS == 1

ScanPages(table) ==
    {page \in SUBSET DOMAIN table :
        \/ page = DOMAIN table /\ Cardinality(page) <= SCAN_PAGE_ITEMS
        \/ Cardinality(page) = SCAN_PAGE_ITEMS}

\* ClearCache that reports success when a delete_item raised
ClearCache_ReportsSuccess(page, done, failing) ==
    IF "cache.scan" \in failing THEN [table |-> cache, ok |-> FALSE]
    ELSE IF "cache.delete_item" \in failing /\ page # {}
    THEN [table |-> [k \in DOMAIN cache \ done |-> cache[k]], ok |-> TRUE]
    ELSE [table |-> [k \in DOMAIN cache \ page |-> cache[k]], ok |-> TRUE]

\* clear_cache: one scan, then delete_item for each item of its page.  When
\* a delete_item raises, the items deleted before it (done) stay deleted.
ClearCache(page, done, failing) ==
    IF "cache.scan" \in failing THEN [table |-> cache, ok |-> FALSE]
    ELSE IF "cache.delete_item" \in failing /\ page # {}
    THEN [table |-> [k \in DOMAIN cache \ done |-> cache[k]], ok |-> FALSE]
    ELSE [table |-> [k \in DOMAIN cache \ page |-> cache[k]], ok |-> TRUE]

\* get_cache_stats
GetCacheStats(failing) ==
    IF "cache.scan" \in failing
    THEN [error |-> "scan failed", table_name |-> "AuraStream-SentimentCache"]
    ELSE [total_items |-> Cardinality(DOMAIN cache),
          table_name |-> "AuraStream-SentimentCache", last_updated |-> now]

\* What a call of a cache method returns
CacheReturn(field, value) ==
    [kind |-> "cache", statusCode |-> 0, code |-> None, message |-> None,
     job_id |-> None, status |-> None, returns |-> field, value |-> value]

\* A call of a cache method with its arguments
CacheCall(method, args, failing) ==
    [handler |-> method, body |-> args, request_id |-> None,
     failing |-> failing]

GetCachedResultCall(text, failing) ==
    /\ event' = CacheCall("cache.get_cached_result", [text |-> text], failing)
    /\ calls' = <<"cache.get_item">>
    /\ response' = CacheReturn("result", GetCachedResult(text, failing))
    /\ UNCHANGED <<jobs, documents, executions, issued, cache, now, workflow, pending>>

StoreResultCall(text, result, ttl, failing) ==
    LET out == StoreResult(text, result, ttl, failing) IN
    /\ event' = CacheCall("cache.store_result",
                          [text |-> text, result |-> result, ttl |-> ttl],
                          failing)
    /\ calls' = <<"cache.put_item">>
    /\ cache' = out.table
    /\ response' = CacheReturn("bool", out.ok)
    /\ UNCHANGED <<jobs, documents, executions, issued, now, workflow, pending>>

DeleteResultCall(text, failing) ==
    LET out == DeleteResult(text, failing) IN
    /\ event' = CacheCall("cache.delete_result", [text |-> text], failing)
    /\ calls' = <<"cache.delete_item">>
    /\ cache' = out.table
    /\ response' = CacheReturn("bool", out.ok)
    /\ UNCHANGED <<jobs, documents, executions, issued, now, workflow, pending>>

ClearCacheCall(page, done, failing) ==
    LET out == ClearCache(page, done, failing) IN
    /\ event' = CacheCall("cache.clear_cache", EmptyDict, failing)
    /\ calls' = <<"cache.scan">>
    /\ cache' = out.table
    /\ response' = CacheReturn("bool", out.ok)
    /\ UNCHANGED <<jobs, documents, executions, issued, now, workflow, pending>>

GetCacheStatsCall(failing) ==
    /\ event' = CacheCall("cache.get_cache_stats", EmptyDict, failing)
    /\ calls' = <<"cache.scan">>
    /\ response' = CacheReturn("stats", GetCacheStats(failing))
    /\ UNCHANGED <<jobs, documents, executions, issued, cache, now, workflow, pending>>

-----------------------------------------------------------------------------
(* The synchronous handler: src/handlers/sync_handler.py *)

\* SentimentAnalysisRequest(**request_data): the text is required, has
\* max_length 5000 (checked on the text as sent) and must not be blank.
SyncRequestValid(body) ==
    /\ body.kind = "json"
    /\ body.has_text
    /\ TextLen(body.text) <= MAX_TEXT_LENGTH_SYNC
    /\ Strip(body.text) # <<>>

\* dict.get(key, default)
Get(d, key, default) == IF key \in DOMAIN d THEN d[key] ELSE default

\* SuccessResponse that returns the data as it got them, without the marker
SuccessResponse_NoMarker(data, request_id, cache_hit) ==
    [kind |-> "analysis", statusCode |-> OK, code |-> None,
     message |-> None, job_id |-> None, status |-> None,
     body |-> data,
     x_cache_hit |-> cache_hit, x_request_id |-> request_id]

\* _create_success_response: a copy of the data with cache_hit set, and the
\* headers X-Cache-Hit and X-Request-ID
SuccessResponse(data, request_id, cache_hit) ==
    [kind |-> "analysis", statusCode |-> OK, code |-> None,
     message |-> None, job_id |-> None, status |-> None,
     body |-> Put(data, "cache_hit", cache_hit),
     x_cache_hit |-> cache_hit, x_request_id |-> request_id]

\* SyncOutcome in which a failure of the cache store fails the request
SyncOutcome_StoreFailureFails(body, request_id, comprehend, failing) ==
    LET keep(cs, r) == [cache |-> cache, calls |-> cs, response |-> r]
        text == Strip(body.text)
        options == body.options
        cached == GetCachedResult(text, failing)
        run_pii == Truthy(options) /\ Get(options, "include_pii_detection", TRUE)
        pii_detected ==
            /\ run_pii
            /\ "comprehend.detect_pii_entities" \notin failing
            /\ comprehend.pii
        pii_calls == IF run_pii THEN <<"comprehend.detect_pii_entities">>
                     ELSE <<>>
        result == [py |-> "dict", sentiment |-> comprehend.sentiment,
                   score |-> comprehend.score, language_code |-> "en",
                   pii_detected |-> pii_detected, cache_hit |-> FALSE,
                   request_id |-> request_id]
        stored == StoreResult(text, result, NoInt, failing)
        \* detect_sentiment raises, or SentimentAnalysisResponse rejects
        \* the sentiment that it answered
        analysis_failed ==
            \/ "comprehend.detect_sentiment" \in failing
            \/ comprehend.sentiment \notin SENTIMENT_TYPES
    IN
    IF body.kind = "null" THEN keep(<<>>, Raised("TypeError"))
    ELSE IF body.kind = "not_json" THEN
        keep(<<>>, ErrorResponse(VALIDATION_ERROR, "VALIDATION_ERROR",
                                 "Invalid JSON in request body"))
    ELSE IF ~SyncRequestValid(body) THEN
        keep(<<>>, ErrorResponse(VALIDATION_ERROR, "VALIDATION_ERROR",
                                 "Invalid request data"))
    ELSE IF ~IsSafe(text) THEN
        keep(<<>>, ErrorResponse(VALIDATION_ERROR, "VALIDATION_ERROR",
                                 "Text contains potentially malicious content"))
    ELSE IF Truthy(cached) THEN
        keep(<<"cache.get_item">>, SuccessResponse(cached, request_id, TRUE))
    ELSE IF analysis_failed \/ "cache.put_item" \in failing THEN
        keep(<<"cache.get_item">> \o pii_calls
                 \o <<"comprehend.detect_sentiment">>,
             ErrorResponse(INTERNAL_ERROR, "INTERNAL_ERROR",
                           "An internal error occurred"))
    ELSE
        [cache |-> stored.table,
         calls |-> <<"cache.get_item">> \o pii_calls
                   \o <<"comprehend.detect_sentiment", "cache.put_item">>,
         response |-> SuccessResponse(result, request_id, FALSE)]

\* SyncOutcome that writes the cache entry before the analysis has succeeded
SyncOutcome_StoreOnFailure(body, request_id, comprehend, failing) ==
    LET keep(cs, r) == [cache |-> cache, calls |-> cs, response |-> r]
        text == Strip(body.text)
        options == body.options
        cached == GetCachedResult(text, failing)
        run_pii == Truthy(options) /\ Get(options, "include_pii_detection", TRUE)
        pii_detected ==
            /\ run_pii
            /\ "comprehend.detect_pii_entities" \notin failing
            /\ comprehend.pii
        pii_calls == IF run_pii THEN <<"comprehend.detect_pii_entities">>
                     ELSE <<>>
        result == [py |-> "dict", sentiment |-> comprehend.sentiment,
                   score |-> comprehend.score, language_code |-> "en",
                   pii_detected |-> pii_detected, cache_hit |-> FALSE,
                   request_id |-> request_id]
        stored == StoreResult(text, result, NoInt, failing)
        \* detect_sentiment raises, or SentimentAnalysisResponse rejects
        \* the sentiment that it answered
        analysis_failed ==
            \/ "comprehend.detect_sentiment" \in failing
            \/ comprehend.sentiment \notin SENTIMENT_TYPES
    IN
    IF body.kind = "null" THEN keep(<<>>, Raised("TypeError"))
    ELSE IF body.kind = "not_json" THEN
        keep(<<>>, ErrorResponse(VALIDATION_ERROR, "VALIDATION_ERROR",
                                 "Invalid JSON in request body"))
    ELSE IF ~SyncRequestValid(body) THEN
        keep(<<>>, ErrorResponse(VALIDATION_ERROR, "VALIDATION_ERROR",
                                 "Invalid request data"))
    ELSE IF ~IsSafe(text) THEN
        keep(<<>>, ErrorResponse(VALIDATION_ERROR, "VALIDATION_ERROR",
                                 "Text contains potentially malicious content"))
    ELSE IF Truthy(cached) THEN
        keep(<<"cache.get_item">>, SuccessResponse(cached, request_id, TRUE))
    ELSE IF analysis_failed THEN
        [cache |-> stored.table,
         calls |-> <<"cache.get_item">> \o pii_calls
                   \o <<"comprehend.detect_sentiment", "cache.put_item">>,
         response |-> ErrorResponse(INTERNAL_ERROR, "INTERNAL_ERROR",
                                    "An internal error occurred")]
    ELSE
        [cache |-> stored.table,
         calls |-> <<"cache.get_item">> \o pii_calls
                   \o <<"comprehend.detect_sentiment", "cache.put_item">>,
         response |-> SuccessResponse(result, request_id, FALSE)]

\* comprehend: [sentiment, score, pii]: what Comprehend answers for the text
SyncOutcome(body, request_id, comprehend, failing) ==
    LET keep(cs, r) == [cache |-> cache, calls |-> cs, response |-> r]
        text == Strip(body.text)
        options == body.options
        cached == GetCachedResult(text, failing)
        run_pii == Truthy(options) /\ Get(options, "include_pii_detection", TRUE)
        pii_detected ==
            /\ run_pii
            /\ "comprehend.detect_pii_entities" \notin failing
            /\ comprehend.pii
        pii_calls == IF run_pii THEN <<"comprehend.detect_pii_entities">>
                     ELSE <<>>
        result == [py |-> "dict", sentiment |-> comprehend.sentiment,
                   score |-> comprehend.score, language_code |-> "en",
                   pii_detected |-> pii_detected, cache_hit |-> FALSE,
                   request_id |-> request_id]
        stored == StoreResult(text, result, NoInt, failing)
        \* detect_sentiment raises, or SentimentAnalysisResponse rejects
        \* the sentiment that it answered
        analysis_failed ==
            \/ "comprehend.detect_sentiment" \in failing
            \/ comprehend.sentiment \notin SENTIMENT_TYPES
    IN
    IF body.kind = "null" THEN keep(<<>>, Raised("TypeError"))
    ELSE IF body.kind = "not_json" THEN
        keep(<<>>, ErrorResponse(VALIDATION_ERROR, "VALIDATION_ERROR",
                                 "Invalid JSON in request body"))
    ELSE IF ~SyncRequestValid(body) THEN
        keep(<<>>, ErrorResponse(VALIDATION_ERROR, "VALIDATION_ERROR",
                                 "Invalid request data"))
    ELSE IF ~IsSafe(text) THEN
        keep(<<>>, ErrorResponse(VALIDATION_ERROR, "VALIDATION_ERROR",
                                 "Text contains potentially malicious content"))
    ELSE IF Truthy(cached) THEN
        keep(<<"cache.get_item">>, SuccessResponse(cached, request_id, TRUE))
    ELSE IF analysis_failed THEN
        keep(<<"cache.get_item">> \o pii_calls
                 \o <<"comprehend.detect_sentiment">>,
             ErrorResponse(INTERNAL_ERROR, "INTERNAL_ERROR",
                           "An internal error occurred"))
    ELSE
        [cache |-> stored.table,
         calls |-> <<"cache.get_item">> \o pii_calls
                   \o <<"comprehend.detect_sentiment", "cache.put_item">>,
         response |-> SuccessResponse(result, request_id, FALSE)]

SyncHandler(body, request_id, comprehend, failing) ==
    LET out == SyncOutcome(body, request_id, comprehend, failing) IN
    /\ cache' = out.cache
    /\ calls' = out.calls
    /\ response' = out.response
    /\ event' = [handler |-> "sync", body |-> body, request_id |-> request_id,
                 failing |-> failing, comprehend |-> comprehend]
    /\ UNCHANGED <<jobs, documents, executions, issued, now>>


-----------------------------------------------------------------------------
(* The inputs of the invocations. *)

JsonBody(text, source_id, options) ==
    [kind |-> "json", has_text |-> TRUE, text |-> text,
     source_id |-> source_id, options |-> options]

\* Bodies that are not a JSON object with a text: "body": null, a body that
\* is not JSON, and a JSON object without the text field.
MalformedBodies ==
    {[kind |-> k, has_text |-> FALSE, text |-> <<>>, source_id |-> None,
      options |-> NoneDict] : k \in {"null", "not_json", "json"}}

AsyncTexts ==
    {<<>>,                                                \* ""
     Str(" ", 2),                                         \* blank
     Str(";", 1),                                         \* fails the scan
     Str(" ", 1) \o Str("a", 1),                          \* " a"
     Str("a", COMPREHEND_REALTIME_MAX) \o Str("A", 1),    \* 5,001 characters
     Str("a", MAX_TEXT_LENGTH_ASYNC),                     \* 1,048,576
     Str("a", MAX_TEXT_LENGTH_ASYNC) \o Str("A", 1),      \* 1,048,577
     Str(" ", 1) \o Str("a", MAX_TEXT_LENGTH_ASYNC)}      \* 1,048,577 sent

AsyncOptions == {NoneDict}

AsyncBodies ==
    MalformedBodies \cup
    {JsonBody(t, s, o) : t \in AsyncTexts, s \in SourceIds, o \in AsyncOptions}

\* At most one of the three calls of an admission fails: the handler stops
\* at the first failure.
AsyncFailing ==
    {{}} \cup {{c} : c \in {"dynamodb.put_item", "s3.put_object",
                            "stepfunctions.start_execution"}}

SyncTexts ==
    {<<>>,
     Str(" ", 2),
     Str(";", 1),
     Str("a", 1),
     Str(" ", 1) \o Str("A", 1),
     Str("a", MAX_TEXT_LENGTH_SYNC),                      \* 5,000
     Str("a", MAX_TEXT_LENGTH_SYNC) \o Str("A", 1),       \* 5,001
     Str(" ", 1) \o Str("a", MAX_TEXT_LENGTH_SYNC)}       \* 5,001 sent

SyncOptions ==
    {NoneDict, [py |-> "dict", include_pii_detection |-> FALSE]}

SyncBodies ==
    MalformedBodies \cup
    {JsonBody(t, None, o) : t \in SyncTexts, o \in SyncOptions}

\* With SyncOptions the PII detector is never called: one answer is enough
ComprehendAnswers ==
    [sentiment : {"POSITIVE"}, score : {95}, pii : {FALSE}]

SyncFailing ==
    {{}, {"cache.get_item"}, {"cache.put_item"},
     {"comprehend.detect_sentiment"}, {"comprehend.detect_pii_entities"}}

\* Events of the update-job-status handler.  An event without a status
\* gets the default "PROCESSING"; an event without job_id is rejected
\* whatever else it holds.
UpdateResults ==
    {NoneDict, [py |-> "dict", sentiment |-> "POSITIVE", score |-> 95]}

UpdateErrors == {NoneDict, [py |-> "dict", warning |-> "Minor issue"]}

UpdateEvents ==
    [job_id : issued, has_status : {TRUE}, status : {"COMPLETED", "FAILED"},
     result : UpdateResults, error : UpdateErrors]
    \cup
    [job_id : issued, has_status : {FALSE}, status : {None},
     result : UpdateResults, error : UpdateErrors]
    \cup
    {[job_id |-> None, has_status |-> TRUE, status |-> "COMPLETED",
      result |-> NoneDict, error |-> NoneDict]}

UpdateFailing == {{}, {"dynamodb.update_item"}}

WorkerSentiments == {"NEGATIVE"}

\* The calls of one worker invocation that fail
ProcessFailing ==
    {{}, {"s3.get_object"}, {"comprehend.detect_sentiment"},
     {"s3.put_object"}, {"comprehend.start_sentiment_detection_job"},
     {"dynamodb.update_item"},
     {"comprehend.detect_sentiment", "dynamodb.update_item"}}

StatusJobIds == Uuids \cup {None, "", "nonexistent-id", NO_PATH_PARAMETERS}

StatusFailing == {{}, {"dynamodb.get_item"}}

-----------------------------------------------------------------------------
(* The state machine. *)

NoResponse ==
    [kind |-> "none", statusCode |-> 0, code |-> None, message |-> None,
     job_id |-> None, status |-> None]

Init ==
    /\ jobs = <<>>
    /\ documents = <<>>
    /\ executions = <<>>
    /\ issued = {}
    /\ cache = <<>>
    /\ now = 0
    /\ event = [handler |-> "none", body |-> EmptyDict, request_id |-> None,
                failing |-> {}]
    /\ calls = <<>>
    /\ response = NoResponse
    /\ workflow = <<>>
    /\ pending = <<>>

Tick ==
    /\ now < MaxClock
    /\ now' = now + 1
    /\ UNCHANGED <<jobs, documents, executions, issued, cache,
                   event, calls, response, workflow, pending>>

Admit ==
    \E body \in AsyncBodies, rid \in RequestIds, j \in Uuids,
       f \in AsyncFailing, arn \in BOOLEAN :
        AsyncHandler(body, rid, j, f, arn) /\ UNCHANGED <<workflow, pending>>

Update == \E ev \in UpdateEvents, f \in UpdateFailing :
              UpdateJobStatusHandler(ev, f) /\ UNCHANGED <<workflow, pending>>

Process ==
    \E j \in Uuids, s \in WorkerSentiments, f \in ProcessFailing :
        ProcessDocumentHandler(j, s, f) /\ UNCHANGED <<workflow, pending>>

ProcessNoJobId ==
    \E f \in UpdateFailing :
        ProcessDocumentNoJobId(f) /\ UNCHANGED <<workflow, pending>>

Query ==
    \E j \in StatusJobIds, f \in StatusFailing :
        StatusHandler(j, f) /\ UNCHANGED <<workflow, pending>>

Analyze ==
    \E body \in SyncBodies, rid \in RequestIds, c \in ComprehendAnswers,
       f \in SyncFailing :
        SyncHandler(body, rid, c, f) /\ UNCHANGED <<workflow, pending>>

\* The job lifecycle: admission, the worker's callbacks, the status query
Next == Admit \/ Update \/ Process \/ Query \/ Tick

Spec == Init /\ [][Next]_vars

\* Update events with a status outside the lifecycle, and with "status": null
AnyStatuses == {"COMPLETED", "FAILED", "PROCESSING", "CANCELLED", None}

AnyStatusEvents ==
    [job_id : issued, has_status : {TRUE}, status : AnyStatuses,
     result : UpdateResults, error : UpdateErrors]

UpdateAnyStatus ==
    \E ev \in AnyStatusEvents, f \in UpdateFailing :
        UpdateJobStatusHandler(ev, f) /\ UNCHANGED <<workflow, pending>>

NextStatuses == Admit \/ UpdateAnyStatus \/ Process

SpecStatuses == Init /\ [][NextStatuses]_vars

\* The update operation, called on the jobs admitted
UpdateCall ==
    \E j \in issued, st \in JOB_STATUSES, r \in UpdateResults,
       e \in UpdateErrors, f \in UpdateFailing :
        UpdateJobStatusCall(j, st, r, e, f) /\ UNCHANGED <<workflow, pending>>

NextUpdates == Admit \/ UpdateCall \/ Tick

SpecUpdates == Init /\ [][NextUpdates]_vars

\* The two request handlers, at one instant of the clock
NextRequests == Admit \/ Analyze

SpecRequests == Init /\ [][NextRequests]_vars

\* The synchronous handler alone, with every form of the options
SyncRequestTexts ==
    {Str("a", 1),                                        \* "a"
     Str(" ", 1) \o Str("A", 1)}                         \* " A"

\* No options, {}, the option off, the option on, options without it
PiiOptions ==
    {NoneDict, EmptyDict,
     [py |-> "dict", include_pii_detection |-> FALSE],
     [py |-> "dict", include_pii_detection |-> TRUE],
     [py |-> "dict", language_code |-> "en"]}

\* "UNKNOWN" is an answer that SentimentAnalysisResponse does not accept
SyncAnswers ==
    [sentiment : {"POSITIVE", "NEGATIVE", "UNKNOWN"}, score : {95},
     pii : BOOLEAN]

AnalyzeRequest ==
    \E t \in SyncRequestTexts, o \in PiiOptions, rid \in RequestIds,
       c \in SyncAnswers, f \in SyncFailing :
        SyncHandler(JsonBody(t, None, o), rid, c, f) /\ UNCHANGED <<workflow, pending>>

\* delete_result and clear_cache called between the requests
Invalidate ==
    \/ \E t \in SyncRequestTexts : DeleteResultCall(t, {})
    \/ \E page \in ScanPages(cache) : ClearCacheCall(page, {}, {})

NextSync == AnalyzeRequest \/ Invalidate

SpecSync == Init /\ [][NextSync]_vars

\* The workflow engine.  An accepted admission starts one execution; the
\* engine invokes the process-document handler with the execution's input,
\* invokes it again when it raised, and ends the execution when it
\* returned.
StartExecutions(wf, started) ==
    [j \in started |-> IF j \in DOMAIN wf THEN wf[j] ELSE "RUNNING"]

AdmitAndStart ==
    \E body \in AsyncBodies, rid \in RequestIds, j \in Uuids,
       f \in AsyncFailing, arn \in BOOLEAN :
        /\ AsyncHandler(body, rid, j, f, arn)
        /\ workflow' = StartExecutions(workflow, DOMAIN executions')
        /\ UNCHANGED pending

\* One invocation of the worker by the engine, with the calls in failing
\* failing
RunWorker(j, failing) ==
    /\ j \in DOMAIN workflow
    /\ workflow[j] = "RUNNING"
    /\ \E s \in WorkerSentiments : ProcessDocumentHandler(j, s, failing)
    /\ workflow' = [workflow EXCEPT
                       ![j] = IF response'.kind = "processed"
                              THEN "SUCCEEDED" ELSE "RUNNING"]
    /\ UNCHANGED pending

Engine == \E j \in Uuids, f \in ProcessFailing : RunWorker(j, f)

NextWorkflow == AdmitAndStart \/ Engine

\* Fair scheduling of a started execution: the engine keeps invoking the
\* worker while the execution runs, and an invocation in which every call
\* succeeds is eventually made.
SpecWorkflow ==
    /\ Init
    /\ [][NextWorkflow]_vars
    /\ WF_vars(Engine)
    /\ \A j \in Uuids : WF_vars(RunWorker(j, {}))

\* The cache, called method by method
MaxCacheClock == 2   \* the clock of the cache runs over 0..MaxCacheClock

CacheTexts ==
    {Str("a", 1),                                        \* "a"
     Str(" ", 1) \o Str("A", 1) \o Str(" ", 2),          \* " A  "
     Str("a", 1) \o Str(" ", 1) \o Str("a", 1),          \* "a a"
     Str("A", 1) \o Str(" ", 3) \o Str("a", 1)}          \* "A   a"

CacheResults ==
    {[py |-> "dict", sentiment |-> s, score |-> 95] :
        s \in {"POSITIVE", "NEGATIVE"}}

\* ttl=None, ttl=0, a ttl of one second
CacheTtls == {NoInt, 0, 1}

Lookup ==
    \E t \in CacheTexts, f \in {{}, {"cache.get_item"}} :
        GetCachedResultCall(t, f)

Store ==
    \E t \in CacheTexts, r \in CacheResults, ttl \in CacheTtls,
       f \in {{}, {"cache.put_item"}} :
        StoreResultCall(t, r, ttl, f)

Delete ==
    \E t \in CacheTexts, f \in {{}, {"cache.delete_item"}} :
        DeleteResultCall(t, f)

Clear ==
    \E f \in {{}, {"cache.scan"}, {"cache.delete_item"}} :
        \E page \in ScanPages(cache) : \E done \in SUBSET page :
            /\ page # {} => done # page
            /\ ClearCacheCall(page, done, f)

Stats == \E f \in {{}, {"cache.scan"}} : GetCacheStatsCall(f)

CacheTick ==
    /\ now < MaxCacheClock
    /\ now' = now + 1
    /\ UNCHANGED <<jobs, documents, executions, issued, cache,
                   event, calls, response, workflow, pending>>

NextCache == Lookup \/ Store \/ Delete \/ Clear \/ Stats \/ CacheTick

SpecCache == Init /\ [][NextCache]_vars

\* Concurrent writers of the cache.  store_result builds its item, reading
\* the clock, and then puts it; a sync request looks the text up, and on a
\* miss analyzes, builds the item and then puts it.  Between the building
\* and the put of one process the other processes take their steps.
Procs == {"p1", "p2"}

\* PutItem that writes the result into the entry the table holds
PutItem_Merge(table, key, item) ==
    IF key \in DOMAIN table
    THEN [table EXCEPT ![key].sentiment_result = item.sentiment_result]
    ELSE Put(table, key, item)

\* table.put_item(Item=item): the item replaces the entry of its key
PutItem(table, key, item) == Put(table, key, item)

BeginStore(p, text, result) ==
    LET key == GenerateCacheKey(text) IN
    /\ p \notin DOMAIN pending
    /\ pending' = Put(pending, p,
                      [key |-> key,
                       item |-> StoreResult(text, result, NoInt, {}).table[key]])
    /\ UNCHANGED <<jobs, documents, executions, issued, cache, now, event,
                   calls, response, workflow>>

BeginSync(p, text, rid, comprehend) ==
    LET body == JsonBody(text, None, NoneDict)
        out == SyncOutcome(body, rid, comprehend, {})
        key == GenerateCacheKey(Strip(text))
    IN
    /\ p \notin DOMAIN pending
    /\ IF out.response.statusCode = OK /\ ~out.response.body.cache_hit
       THEN /\ pending' = Put(pending, p,
                              [key |-> key, item |-> out.cache[key]])
            /\ UNCHANGED <<jobs, documents, executions, issued, cache, now,
                           event, calls, response, workflow>>
       ELSE /\ SyncHandler(body, rid, comprehend, {})
            /\ UNCHANGED <<workflow, pending>>

CompletePut(p) ==
    /\ p \in DOMAIN pending
    /\ cache' = PutItem(cache, pending[p].key, pending[p].item)
    /\ pending' = [q \in DOMAIN pending \ {p} |-> pending[q]]
    /\ event' = CacheCall("cache.put_item",
                          [proc |-> p, key |-> pending[p].key], {})
    /\ calls' = <<"cache.put_item">>
    /\ response' = CacheReturn("bool", TRUE)
    /\ UNCHANGED <<jobs, documents, executions, issued, now, workflow>>

StoreBegins ==
    \E p \in Procs, t \in SyncRequestTexts, r \in CacheResults :
        BeginStore(p, t, r)

SyncBegins ==
    \E p \in Procs, t \in SyncRequestTexts, rid \in RequestIds,
       c \in SyncAnswers :
        BeginSync(p, t, rid, c)

Puts == \E p \in Procs : CompletePut(p)

NextConcurrent == StoreBegins \/ SyncBegins \/ Puts \/ CacheTick

SpecConcurrent == Init /\ [][NextConcurrent]_vars

\* The worker's callbacks, whatever delivers them: the update-job-status
\* handler and the process-document handler, with and without a job id
NextCallbacks == Admit \/ Update \/ Process \/ ProcessNoJobId

SpecCallbacks == Init /\ [][NextCallbacks]_vars


-----------------------------------------------------------------------------
(* Properties of the job lifecycle. *)

TERMINAL == {"COMPLETED", "FAILED"}

\* The jobs whose admission was accepted: record, document and execution
AdmittedJobs ==
    DOMAIN jobs \cap DOMAIN documents \cap DOMAIN executions

\* The request of the last invocation passed the async handler's validation
AsyncAdmissible(body) ==
    /\ body.kind = "json"
    /\ body.has_text
    /\ Strip(body.text) # <<>>
    /\ TextLen(body.text) <= MAX_TEXT_LENGTH_ASYNC
    /\ IsSafe(body.text)

\* C1: terminal states are absorbing: once an admitted job is COMPLETED or
\* FAILED, no invocation changes its status.
C1_TerminalAbsorbing ==
    [][\A j \in AdmittedJobs :
          jobs[j].status \in TERMINAL => jobs'[j].status = jobs[j].status]_vars

\* C2: an admitted job has completed_at set if and only if its status is
\* COMPLETED or FAILED.
C2_CompletedAtIffTerminal ==
    \A j \in AdmittedJobs :
        (jobs[j].completed_at # NoInt) <=> (jobs[j].status \in TERMINAL)

\* C3: a COMPLETED job has no error and a FAILED job has no result.
C3_ResultErrorExclusive ==
    \A j \in AdmittedJobs :
        /\ jobs[j].status = "COMPLETED" => jobs[j].error = NoneDict
        /\ jobs[j].status = "FAILED" => jobs[j].result = NoneDict

\* C4: an admission writes the job record, then the document, then starts
\* the workflow: a stored document has its job record (written by
\* _store_job), a started execution has its job record and its non-empty
\* document, and the calls of an admission are a prefix of that order.
C4_AdmissionOrder ==
    /\ \A j \in DOMAIN documents :
          j \in DOMAIN jobs /\ jobs[j].created_at # NoInt
    /\ \A j \in DOMAIN executions :
          /\ j \in DOMAIN jobs /\ jobs[j].created_at # NoInt
          /\ j \in DOMAIN documents /\ documents[j] # <<>>
    /\ event.handler = "async" =>
          \E n \in 0..3 :
              calls = SubSeq(<<"dynamodb.put_item", "s3.put_object",
                               "stepfunctions.start_execution">>, 1, n)

\* A worker invocation for a started execution that read the document and
\* analysed it
C4_Witness ==
    /\ event.handler = "process_document"
    /\ event.body.job_id \in DOMAIN executions
    /\ response.kind = "processed"

InternalError(message) ==
    /\ response.kind = "error"
    /\ response.statusCode = INTERNAL_ERROR
    /\ response.code = "INTERNAL_ERROR"
    /\ response.message = message
    /\ response.job_id = None

\* C6: when the job-record write, the document write or the workflow
\* trigger fails, the handler answers 500 INTERNAL_ERROR without a job id
\* at that step, and makes none of the later calls.
C6_FailsAtFirstFailingStep ==
    (event.handler = "async" /\ AsyncAdmissible(event.body)) =>
        /\ "dynamodb.put_item" \in event.failing =>
              /\ InternalError("Failed to store job information")
              /\ calls = <<"dynamodb.put_item">>
        /\ "s3.put_object" \in event.failing =>
              /\ InternalError("Failed to store document")
              /\ calls = <<"dynamodb.put_item", "s3.put_object">>
        /\ "stepfunctions.start_execution" \in event.failing =>
              /\ InternalError("Failed to start processing")
              /\ event.uuid \notin DOMAIN executions
        /\ response.kind = "error" => event.uuid \notin DOMAIN executions

\* An admission whose job-record write failed
C6_Witness ==
    /\ event.handler = "async"
    /\ AsyncAdmissible(event.body)
    /\ "dynamodb.put_item" \in event.failing
    /\ response.statusCode = INTERNAL_ERROR

\* C7: no rollback.  After a failed document write the job record of the
\* admission is stored in PROCESSING, without document; after a failed
\* trigger the record (PROCESSING) and the document are stored.
C7_NoRollback ==
    (event.handler = "async" /\ AsyncAdmissible(event.body)) =>
        LET j == event.uuid IN
        /\ response.message = "Failed to store document" =>
              /\ j \in DOMAIN jobs
              /\ jobs[j].status = "PROCESSING"
              /\ j \notin DOMAIN documents
        /\ response.message = "Failed to start processing" =>
              /\ j \in DOMAIN jobs
              /\ jobs[j].status = "PROCESSING"
              /\ j \in DOMAIN documents
              /\ documents[j] = Strip(event.body.text)

\* An admission whose document write failed
C7_Witness ==
    /\ event.handler = "async"
    /\ response.message = "Failed to store document"
    /\ event.uuid \in DOMAIN jobs

\* C9: a status query for a job whose admission was accepted and that no
\* worker has updated, when the query's read of the job store succeeds,
\* returns 200 with the job id, PROCESSING, and neither result, error nor
\* completed_at.
C9_StatusAfterAdmission ==
    (/\ event.handler = "status"
     /\ event.body.job_id \in AdmittedJobs
     /\ "dynamodb.get_item" \notin event.failing
     /\ jobs[event.body.job_id].updated_at = NoInt) =>
        /\ response.kind = "status"
        /\ response.statusCode = OK
        /\ response.job_id = event.body.job_id
        /\ response.status = "PROCESSING"
        /\ response.result = NoneDict
        /\ response.error = NoneDict
        /\ response.completed_at = NoInt

\* A status query answered for such a job
C9_Witness ==
    /\ event.handler = "status"
    /\ event.body.job_id \in AdmittedJobs
    /\ jobs[event.body.job_id].updated_at = NoInt
    /\ response.kind = "status"

\* C10: a PROCESSING job has no result, no error and no completed_at, and
\* a status response that says PROCESSING carries neither result nor error.
C10_ProcessingHasNoOutcome ==
    /\ \A j \in AdmittedJobs :
          jobs[j].status = "PROCESSING" =>
              /\ jobs[j].result = NoneDict
              /\ jobs[j].error = NoneDict
              /\ jobs[j].completed_at = NoInt
    /\ (response.kind = "status" /\ response.status = "PROCESSING") =>
          (response.result = NoneDict /\ response.error = NoneDict)

-----------------------------------------------------------------------------
(* Properties of the request validation. *)

\* The response of a rejected request: 400 VALIDATION_ERROR, no job id, and
\* no external call made
Rejected ==
    /\ response.kind = "error"
    /\ response.statusCode = VALIDATION_ERROR
    /\ response.code = "VALIDATION_ERROR"
    /\ response.job_id = None
    /\ calls = <<>>

\* C8: an async request whose text is empty, longer than 1,048,576
\* characters or unsafe, and a sync request whose text is empty, longer
\* than 5,000 characters or unsafe, is answered 400 VALIDATION_ERROR
\* without a job id and without any external call.
C8_ValidationFailsFast ==
    /\ (/\ event.handler = "async"
        /\ event.body.kind = "json" /\ event.body.has_text
        /\ \/ event.body.text = <<>>
           \/ TextLen(event.body.text) > MAX_TEXT_LENGTH_ASYNC
           \/ ~IsSafe(event.body.text))
       => Rejected /\ event.uuid \notin issued
    /\ (/\ event.handler = "sync"
        /\ event.body.kind = "json" /\ event.body.has_text
        /\ \/ event.body.text = <<>>
           \/ TextLen(event.body.text) > MAX_TEXT_LENGTH_SYNC
           \/ ~IsSafe(event.body.text))
       => Rejected

\* An async request of exactly 1,048,577 characters, rejected
C8_Witness ==
    /\ event.handler = "async"
    /\ event.body.kind = "json"
    /\ TextLen(event.body.text) = MAX_TEXT_LENGTH_ASYNC + 1
    /\ response.statusCode = VALIDATION_ERROR

-----------------------------------------------------------------------------
(* Properties of the status query. *)

\* The job id of the last status query is a string the caller sent
StatusQueryFor(job_id) ==
    /\ event.handler = "status"
    /\ event.body.job_id = job_id

\* C11: a status query for a job that a worker update moved from PROCESSING
\* to COMPLETED with a non-empty result r (no error) returns 200 with
\* status COMPLETED, the result r, completed_at set and no error.
C11_CompletedResultReturned ==
    \A j \in AdmittedJobs :
        (/\ StatusQueryFor(j)
         /\ "dynamodb.get_item" \notin event.failing
         /\ jobs[j].status = "COMPLETED"
         /\ Truthy(jobs[j].result)
         /\ jobs[j].error = NoneDict) =>
            /\ response.kind = "status"
            /\ response.statusCode = OK
            /\ response.status = "COMPLETED"
            /\ response.result = jobs[j].result
            /\ response.completed_at # NoInt
            /\ response.error = NoneDict

\* C12: a status query for a job id that has no record in the job store is
\* answered 404 NOT_FOUND.
C12_UnknownJobNotFound ==
    \A id \in StatusJobIds \ {None, "", NO_PATH_PARAMETERS} :
        (StatusQueryFor(id) /\ id \notin DOMAIN jobs) =>
            /\ response.kind = "error"
            /\ response.statusCode = NOT_FOUND
            /\ response.code = "NOT_FOUND"

\* C13: a status query whose job_id is missing, empty or not in the UUID
\* format is answered 400 VALIDATION_ERROR, never 404, and the job store
\* is not read.
C13_MalformedJobIdRejected ==
    \A id \in StatusJobIds \ Uuids :
        StatusQueryFor(id) =>
            /\ response.kind = "error"
            /\ response.statusCode = VALIDATION_ERROR
            /\ response.code = "VALIDATION_ERROR"
            /\ calls = <<>>

-----------------------------------------------------------------------------
(* Properties of the worker's callbacks. *)

\* The last invocation of the process-document handler failed: its event
\* has no job id, the document could not be read, or the analysis raised
WorkerFailed ==
    /\ event.handler = "process_document"
    /\ \/ event.body = EmptyDict
       \/ "s3.get_object" \in event.failing
       \/ event.body.job_id \notin DOMAIN documents
       \/ LET text == documents[event.body.job_id] IN
          IF TextLen(text) > COMPREHEND_REALTIME_MAX
          THEN event.failing \cap {"s3.put_object",
                   "comprehend.start_sentiment_detection_job"} # {}
          ELSE "comprehend.detect_sentiment" \in event.failing

\* The job the except branch of the process-document handler updates
WorkerJobId ==
    IF event.body = EmptyDict THEN UNKNOWN_JOB ELSE event.body.job_id

\* C15: the update-job-status handler raises when job_id is missing or the
\* job-store update fails; the process-document handler, on a missing job
\* id, a missing document or an analysis error, attempts to mark the job
\* FAILED with an error record {error, error_type, failed_at} and raises;
\* neither returns a success response.
C15_CallbacksPropagateFailure ==
    /\ (/\ event.handler = "update_job_status"
        /\ \/ event.body.job_id = None
           \/ "dynamodb.update_item" \in event.failing)
       => response.kind = "raised"
    /\ WorkerFailed =>
          /\ response.kind = "raised"
          /\ Len(calls) > 0
          /\ calls[Len(calls)] = "dynamodb.update_item"
          /\ "dynamodb.update_item" \notin event.failing =>
                /\ WorkerJobId \in DOMAIN jobs
                /\ jobs[WorkerJobId].status = "FAILED"
                /\ {"error", "error_type", "failed_at"}
                       \subseteq DOMAIN jobs[WorkerJobId].error

\* An update-job-status invocation whose job-store update failed
C15_Witness ==
    /\ event.handler = "update_job_status"
    /\ event.body.job_id \in AdmittedJobs
    /\ "dynamodb.update_item" \in event.failing
    /\ response.kind = "raised"

\* C14: under fair scheduling of the started workflow, every job whose
\* admission was accepted eventually has status COMPLETED or FAILED in the
\* job store.
C14_EventuallyTerminal ==
    \A j \in Uuids :
        (j \in DOMAIN workflow)
            ~> (j \in DOMAIN jobs /\ jobs[j].status \in TERMINAL)

-----------------------------------------------------------------------------
(* Properties of the result cache. *)

\* The words of a text: its maximal runs of non-whitespace characters, in
\* lower case.  Two texts that differ only in letter case, in leading or
\* trailing whitespace or in the length of their internal whitespace runs
\* have the same words.
RECURSIVE SplitWords(_, _, _)
SplitWords(t, word, words) ==
    LET closed == IF word = <<>> THEN words ELSE Append(words, word) IN
    IF t = <<>> THEN closed
    ELSE IF IsSpace(Head(t).ch) THEN SplitWords(Tail(t), <<>>, closed)
    ELSE SplitWords(Tail(t),
                    Canon(word \o <<[ch |-> Lower(Head(t).ch),
                                     n |-> Head(t).n]>>),
                    words)

SameWords(t1, t2) == SplitWords(t1, <<>>, <<>>) = SplitWords(t2, <<>>, <<>>)

\* The step is a get_cached_result(text) whose get_item succeeds, made
\* right after a store_result that returned True
LookupAfterStore ==
    /\ event.handler = "cache.store_result"
    /\ response.value = TRUE
    /\ event'.handler = "cache.get_cached_result"
    /\ "cache.get_item" \notin event'.failing

\* The expiry instant stored with the entry of the text
StoredExpiry(text) == cache[GenerateCacheKey(text)].ttl

\* The table holds an entry for the text whose expiry instant has passed
\* at the time ts
EntryExpiredAt(table, text, ts) ==
    /\ GenerateCacheKey(text) \in DOMAIN table
    /\ ts > table[GenerateCacheKey(text)].ttl

\* C16: texts that differ only in letter case, leading or trailing
\* whitespace or the length of internal whitespace runs have the same
\* cache key, and texts with different words have different keys; so a
\* lookup of t2 after a store of (t1, r), before the entry expires,
\* returns r.
C16_KeyInvariantUnderNormalization ==
    [][/\ event'.handler = "cache.get_cached_result" =>
             \A t \in CacheTexts :
                 SameWords(t, event'.body.text)
                     <=> (GenerateCacheKey(t)
                              = GenerateCacheKey(event'.body.text))
       /\ (/\ LookupAfterStore
           /\ SameWords(event.body.text, event'.body.text)
           /\ ~EntryExpiredAt(cache', event.body.text, now'))
          => response'.value = event.body.result]_vars

\* A lookup by a text that is not in normalized form returned a result
C16_Witness ==
    /\ event.handler = "cache.get_cached_result"
    /\ NormalizeText(event.body.text) # event.body.text
    /\ response.value \in CacheResults

\* C17: a get_cached_result(t) made after store_result(t, r) returned True,
\* before the entry expires and with no other call on the key in between,
\* returns r; and the store leaves the lookup of every text with different
\* words as it was.
C17_RoundTrip ==
    [][/\ (/\ LookupAfterStore
           /\ event'.body.text = event.body.text
           /\ ~EntryExpiredAt(cache', event.body.text, now'))
          => response'.value = event.body.result
       /\ event'.handler = "cache.store_result" =>
             \A t \in CacheTexts :
                 LET k == GenerateCacheKey(t) IN
                 \/ /\ (k \in DOMAIN cache') = (k \in DOMAIN cache)
                    /\ k \in DOMAIN cache => cache'[k] = cache[k]
                 \/ SameWords(t, event'.body.text)]_vars

\* A lookup returned a result while the cache holds two entries
C17_Witness ==
    /\ event.handler = "cache.get_cached_result"
    /\ response.value \in CacheResults
    /\ Cardinality(DOMAIN cache) = 2

\* C18: get_cached_result returns None for an entry that is in the store
\* when the current time is greater than its stored expiry instant, and
\* the stored result when it is not greater.
C18_ExpiryCheckedOnRead ==
    [][(/\ event'.handler = "cache.get_cached_result"
        /\ now' = now
        /\ "cache.get_item" \notin event'.failing
        /\ GenerateCacheKey(event'.body.text) \in DOMAIN cache')
       => LET item == cache'[GenerateCacheKey(event'.body.text)] IN
          /\ now' > item.ttl => response'.value = NoneDict
          /\ ~(now' > item.ttl) => response'.value = item.sentiment_result
      ]_vars

\* A lookup found an entry, stored with a ttl of one second, that had
\* expired, and returned None
C18_Witness ==
    /\ event.handler = "cache.get_cached_result"
    /\ "cache.get_item" \notin event.failing
    /\ GenerateCacheKey(event.body.text) \in DOMAIN cache
    /\ StoredExpiry(event.body.text) = 1
    /\ now > 1
    /\ response.value = NoneDict

\* C19: store_result(t, r, ttl) writes the expiry now + ttl for the ttl the
\* caller passed, and an entry stored with ttl = 0 is absent on the next
\* get_cached_result(t).
C19_ZeroTtlAbsent ==
    [][/\ (/\ event'.handler = "cache.store_result"
           /\ response'.value = TRUE
           /\ event'.body.ttl # NoInt)
          => cache'[GenerateCacheKey(event'.body.text)].ttl
                 = now' + event'.body.ttl
       /\ (/\ LookupAfterStore
           /\ event'.body.text = event.body.text
           /\ event.body.ttl = 0)
          => response'.value = NoneDict]_vars

\* C20: when the backing store raises on get, put, delete or scan, the
\* cache method returns its safe default (None, False, a record with an
\* error field) and the stored entries are left as the store left them.
C20_FailOpen ==
    [][/\ (/\ event'.handler = "cache.get_cached_result"
           /\ "cache.get_item" \in event'.failing)
          => response'.value = NoneDict /\ cache' = cache
       /\ (/\ event'.handler = "cache.store_result"
           /\ "cache.put_item" \in event'.failing)
          => response'.value = FALSE /\ cache' = cache
       /\ (/\ event'.handler = "cache.delete_result"
           /\ "cache.delete_item" \in event'.failing)
          => response'.value = FALSE /\ cache' = cache
       /\ (/\ event'.handler = "cache.clear_cache"
           /\ "cache.scan" \in event'.failing)
          => response'.value = FALSE /\ cache' = cache
       /\ (/\ event'.handler = "cache.clear_cache"
           /\ "cache.delete_item" \in event'.failing
           /\ cache # <<>>)
          => /\ response'.value = FALSE
             /\ DOMAIN cache' \subseteq DOMAIN cache
             /\ \A k \in DOMAIN cache' : cache'[k] = cache[k]
       /\ (/\ event'.handler = "cache.get_cache_stats"
           /\ "cache.scan" \in event'.failing)
          => "error" \in DOMAIN response'.value /\ cache' = cache
       /\ response'.kind # "raised"]_vars

\* clear_cache returned False after a delete_item raised, with entries
\* left in the store
C20_Witness ==
    /\ event.handler = "cache.clear_cache"
    /\ "cache.delete_item" \in event.failing
    /\ response.value = FALSE
    /\ cache # <<>>

-----------------------------------------------------------------------------
(* Properties of the synchronous path. *)

\* The call c was made by the last invocation
Called(cs, c) == \E i \in DOMAIN cs : cs[i] = c

\* The step is a sync request answered 200
SyncAnswered == event'.handler = "sync" /\ response'.statusCode = OK

\* The table holds an entry for the text that has not expired at the time
\* ts and that a get_item without failure returns
LiveEntry(table, text, ts, failing) ==
    /\ "cache.get_item" \notin failing
    /\ GenerateCacheKey(text) \in DOMAIN table
    /\ ts <= table[GenerateCacheKey(text)].ttl

\* C21: on a cache hit the sync handler returns the cached result with
\* cache_hit = true in the body and X-Cache-Hit: true, and makes no PII
\* call, no sentiment call and no cache write; cache_hit of a 200 response
\* is true exactly when the result was served from the cache.
C21_CacheHitShortCircuits ==
    [][SyncAnswered =>
         LET text == event'.body.text
             hit == LiveEntry(cache, text, now, event'.failing)
         IN /\ response'.body.cache_hit = hit
            /\ response'.x_cache_hit = hit
            /\ hit => /\ calls' = <<"cache.get_item">>
                      /\ cache' = cache
                      /\ response'.body =
                            Put(cache[GenerateCacheKey(text)].sentiment_result,
                                "cache_hit", TRUE)
            /\ ~hit => Called(calls', "comprehend.detect_sentiment")]_vars

\* A sync request served from the cache
C21_Witness ==
    /\ event.handler = "sync"
    /\ response.statusCode = OK
    /\ response.body.cache_hit
    /\ calls = <<"cache.get_item">>

\* The step is a sync request for the text of the sync request before it,
\* which was answered 200 with cache_hit = false
RepeatedRequest ==
    /\ event.handler = "sync"
    /\ response.statusCode = OK
    /\ ~response.body.cache_hit
    /\ event'.handler = "sync"
    /\ event'.body.text = event.body.text

\* The second response is a hit with the sentiment and score of the first
SameAnswerFromCache ==
    /\ response'.statusCode = OK
    /\ response'.body.cache_hit
    /\ response'.body.sentiment = response.body.sentiment
    /\ response'.body.score = response.body.score

FreshAnswer ==
    /\ response'.statusCode = OK
    /\ ~response'.body.cache_hit
    /\ response'.body.sentiment = event'.comprehend.sentiment
    /\ response'.body.score = event'.comprehend.score

\* C23: a valid sync request whose analysis succeeds is answered 200 with
\* the freshly computed result and cache_hit = false when its cache lookup
\* fails at the storage layer, whatever the cache holds, and when its cache
\* store fails; the failed store leaves the cache as it was.
C23_CacheNotADependency ==
    [][(/\ event'.handler = "sync"
        /\ SyncRequestValid(event'.body)
        /\ IsSafe(Strip(event'.body.text))
        /\ "comprehend.detect_sentiment" \notin event'.failing
        /\ event'.comprehend.sentiment \in SENTIMENT_TYPES)
       => /\ "cache.get_item" \in event'.failing => FreshAnswer
          /\ (/\ "cache.put_item" \in event'.failing
              /\ ~LiveEntry(cache, event'.body.text, now, event'.failing))
             => FreshAnswer /\ cache' = cache]_vars

\* A request whose cache store failed, answered 200 with the cache empty
C23_Witness ==
    /\ event.handler = "sync"
    /\ "cache.put_item" \in event.failing
    /\ response.statusCode = OK
    /\ ~response.body.cache_hit
    /\ cache = <<>>

\* The options of the request set include_pii_detection to false
PiiSwitchedOff(options) ==
    /\ options.py = "dict"
    /\ "include_pii_detection" \in DOMAIN options
    /\ options.include_pii_detection = FALSE

\* What the PII detector answers to the request: detect_pii returns
\* pii_detected = False when its Comprehend call raises
DetectorAnswer(ev) ==
    /\ "comprehend.detect_pii_entities" \notin ev.failing
    /\ ev.comprehend.pii

\* C24: on a cache miss the sync handler runs PII detection for every
\* request except those whose options set include_pii_detection to false,
\* requests without an options object included, and pii_detected of the
\* response is the detector's answer.
C24_PiiDetectionByDefault ==
    [][(SyncAnswered /\ ~response'.body.cache_hit) =>
         IF PiiSwitchedOff(event'.body.options)
         THEN /\ ~Called(calls', "comprehend.detect_pii_entities")
              /\ ~response'.body.pii_detected
         ELSE /\ Called(calls', "comprehend.detect_pii_entities")
              /\ response'.body.pii_detected = DetectorAnswer(event')]_vars

-----------------------------------------------------------------------------
(* Properties of the update operation. *)

\* The step is a call of _update_job_status that returned True (the clock
\* moves between the calls, not within one)
UpdateApplied ==
    /\ event'.handler = "_update_job_status"
    /\ response'.value = TRUE
    /\ now' = now

\* The fields of a job record that the admission writes and no update names
FrameFields ==
    {"created_at", "source_id", "text_length", "options", "request_id"}

C26_UpdateIdempotent ==
    [][(/\ UpdateApplied
        /\ event' = event
        /\ response.value = TRUE
        /\ event.body.status \in TERMINAL)
       => jobs' = jobs]_vars

\* C27: every record of the job store has a status in PROCESSING,
\* COMPLETED, FAILED.
C27_StatusInLifecycle ==
    \A j \in DOMAIN jobs : jobs[j].status \in JOB_STATUSES

-----------------------------------------------------------------------------
(* Properties of the cache's invalidation. *)

\* C28: after clear_cache returns True the cache holds no entries,
\* whatever the number of entries it held, and the get_cached_result that
\* follows returns None.
C28_ClearEmptiesCache ==
    [][/\ (/\ event'.handler = "cache.clear_cache"
           /\ response'.value = TRUE)
          => cache' = <<>>
       /\ (/\ event.handler = "cache.clear_cache"
           /\ response.value = TRUE
           /\ event'.handler = "cache.get_cached_result")
          => response'.value = NoneDict]_vars

\* C29: delete_result(t), when the store's delete succeeds, returns True
\* whether or not an entry existed, removes the entry of the key derived
\* from t and leaves the entries of every other key as they were; the
\* get_cached_result(t) that follows returns None.
C29_DeleteRemovesOneKey ==
    [][/\ (/\ event'.handler = "cache.delete_result"
           /\ "cache.delete_item" \notin event'.failing)
          => LET key == GenerateCacheKey(event'.body.text) IN
             /\ response'.value = TRUE
             /\ DOMAIN cache' = DOMAIN cache \ {key}
             /\ \A k \in DOMAIN cache' : cache'[k] = cache[k]
       /\ (/\ event.handler = "cache.delete_result"
           /\ response.value = TRUE
           /\ event'.handler = "cache.get_cached_result"
           /\ SameWords(event'.body.text, event.body.text))
          => response'.value = NoneDict]_vars

\* delete_result of a text that is not in normalized form returned True
\* and the entry of another key is still stored
C29_Witness ==
    /\ event.handler = "cache.delete_result"
    /\ NormalizeText(event.body.text) # event.body.text
    /\ response.value = TRUE
    /\ cache # <<>>

-----------------------------------------------------------------------------
(* Properties of concurrent cache writers. *)

\* C30: under every interleaving of concurrent sync requests and stores,
\* a put replaces the entry of its key by the whole item of its writer and
\* leaves the other entries alone, no other step writes the cache, and
\* texts with the same normalized form share one entry: the cache holds
\* for each key the result and expiry of the store applied last.
C30_LastWriterWins ==
    [][/\ \A p \in DOMAIN pending :
             p \notin DOMAIN pending' =>
                 /\ DOMAIN cache' = DOMAIN cache \cup {pending[p].key}
                 /\ cache'[pending[p].key] = pending[p].item
                 /\ \A k \in DOMAIN cache \ {pending[p].key} :
                        cache'[k] = cache[k]
       /\ DOMAIN pending \subseteq DOMAIN pending' => cache' = cache
       /\ \A k1, k2 \in DOMAIN cache' : SameWords(k1, k2) => k1 = k2]_vars

\* A put replaced the entry while another process holds a different item
\* for the same key, built and not yet put
C30_Witness ==
    /\ event.handler = "cache.put_item"
    /\ event.body.key \in DOMAIN cache
    /\ cache[event.body.key].created_at < now
    /\ \E q \in DOMAIN pending :
           /\ pending[q].key = event.body.key
           /\ pending[q].item # cache[event.body.key]

-----------------------------------------------------------------------------
(* Properties of the writers of the cache and of the job store. *)

\* The analysis of the sync request fails: detect_sentiment raises, or the
\* response cannot be assembled from its answer
AnalysisFails(ev) ==
    \/ "comprehend.detect_sentiment" \in ev.failing
    \/ ev.comprehend.sentiment \notin SENTIMENT_TYPES

\* C31: a valid sync request that misses the cache and whose analysis
\* fails is answered 500 INTERNAL_ERROR and leaves the cache as it was; a
\* sync request changes the cache only when it answers 200 with cache_hit
\* = false after a detect_sentiment call, and then only the entry of its
\* text.
C31_EntryOnlyAfterAnalysis ==
    [][event'.handler = "sync" =>
         /\ (/\ SyncRequestValid(event'.body)
             /\ IsSafe(Strip(event'.body.text))
             /\ ~LiveEntry(cache, event'.body.text, now, event'.failing)
             /\ AnalysisFails(event'))
            => /\ response'.statusCode = INTERNAL_ERROR
               /\ response'.code = "INTERNAL_ERROR"
               /\ cache' = cache
         /\ cache' # cache =>
               /\ response'.statusCode = OK
               /\ ~response'.body.cache_hit
               /\ ~AnalysisFails(event')
               /\ Called(calls', "comprehend.detect_sentiment")
               /\ \A k \in DOMAIN cache :
                      k # GenerateCacheKey(event'.body.text)
                          => k \in DOMAIN cache' /\ cache'[k] = cache[k]]_vars

\* A sync request whose answer from Comprehend could not be assembled into
\* a response, answered 500
C31_Witness ==
    /\ event.handler = "sync"
    /\ event.failing = {}
    /\ event.comprehend.sentiment \notin SENTIMENT_TYPES
    /\ response.statusCode = INTERNAL_ERROR
    /\ Called(calls, "comprehend.detect_sentiment")

\* C32: the estimated completion instant of an acceptance is the admission
\* time plus 30 seconds plus text_length / 1000 seconds (one millisecond
\* per character): at least 30 seconds after the admission, and earlier
\* than the estimate of every longer text admitted at the same time.
C32_EstimatedCompletion ==
    response.kind = "accepted" =>
        LET length == jobs[response.job_id].text_length
            admitted == response.created_at * 1000
        IN /\ response.estimated_completion_ms = admitted + 30000 + length
           /\ response.estimated_completion_ms >= admitted + 30000
           /\ \A t \in AsyncTexts :
                  TextLen(Strip(t)) > length =>
                      EstimatedCompletionMs(Strip(t), response.created_at)
                          > response.estimated_completion_ms

\* The acceptance of a text of one character, admitted after the clock has
\* moved
C32_Witness ==
    /\ response.kind = "accepted"
    /\ jobs[response.job_id].text_length = 1
    /\ response.created_at > 0

\* C33: when the process-document handler has returned statusCode 200,
\* status COMPLETED and result r for job j, the job store holds status
\* COMPLETED and result r for j.
C33_ReportedCompletedIsStored ==
    (event.handler = "process_document" /\ response.kind = "processed") =>
        /\ response.job_id \in DOMAIN jobs
        /\ jobs[response.job_id].status = "COMPLETED"
        /\ jobs[response.job_id].result = response.result

\* C34: every record of the job store was written by _store_job and has
\* created_at, text_length and options; a worker update for an id without
\* a record, the placeholder "unknown" included, creates none.
C34_RecordsOnlyFromAdmission ==
    \A j \in DOMAIN jobs :
        /\ j \in issued
        /\ jobs[j].created_at # NoInt
        /\ jobs[j].text_length # NoInt
        /\ jobs[j].options # NoneDict


\* C35: the status handler answers NOT_FOUND only when the job store holds
\* no record for the id; a query for a stored job is never answered
\* NOT_FOUND, also when the read of the store fails
C35_NotFoundOnlyWhenAbsent ==
    (event.handler = "status" /\ response.code = "NOT_FOUND")
        => event.body.job_id \notin DOMAIN jobs


-----------------------------------------------------------------------------
(* Requests of several callers for one text.  Comprehend answers every
   request alike, so that what distinguishes a cache hit from a fresh
   computation is the handler's doing. *)

CallerRequestIds == {"rq1", "rq2"}         \* context.aws_request_id

\* detect_sentiment: POSITIVE; detect_pii_entities: entities found
SteadyAnswer == [sentiment |-> "POSITIVE", score |-> 95, pii |-> TRUE]

\* The cache works, or its put_item raises
CallerFailing == {{}, {"cache.put_item"}}

AnalyzeAs ==
    \E t \in SyncRequestTexts, o \in PiiOptions, rid \in CallerRequestIds,
       f \in CallerFailing :
        /\ SyncHandler(JsonBody(t, None, o), rid, SteadyAnswer, f)
        /\ UNCHANGED <<workflow, pending>>

Forget == \E t \in SyncRequestTexts : DeleteResultCall(t, {})

NextCallers == AnalyzeAs \/ Forget

SpecCallers == Init /\ [][NextCallers]_vars

\* The sync handler answered the last invocation 200 from the cache
AnsweredFromCache ==
    /\ event.handler = "sync"
    /\ response.statusCode = OK
    /\ response.body.cache_hit

\* C36: the body of every 200 response of the sync handler carries the
\* request_id of the request it answers, the one of the X-Request-ID
\* header, also on a cache hit
C36_OwnRequestId ==
    (event.handler = "sync" /\ response.statusCode = OK)
        => /\ response.x_request_id = event.request_id
           /\ response.body.request_id = event.request_id

\* What the handler computes for the request when it does not find the
\* text in the cache: the response of the miss path
FreshComputation(ev) ==
    SyncOutcome(ev.body, ev.request_id, ev.comprehend,
                ev.failing \cup {"cache.get_item"}).response

\* C37: sentiment, language_code and pii_detected of a response served
\* from the cache equal those that the miss path returns for the text and
\* the options of the request
C37_HitEqualsFresh ==
    AnsweredFromCache =>
        LET fresh == FreshComputation(event) IN
        /\ fresh.statusCode = OK
        /\ response.body.sentiment = fresh.body.sentiment
        /\ response.body.language_code = fresh.body.language_code
        /\ response.body.pii_detected = fresh.body.pii_detected


\* C38: the result of a job that the worker marked COMPLETED carries a
\* final sentiment, one of POSITIVE, NEGATIVE, NEUTRAL and MIXED, for every
\* admitted text length, those of the batch branch included
C38_CompletedHasFinalSentiment ==
    (/\ event.handler = "process_document"
     /\ response.kind = "processed"
     /\ "dynamodb.update_item" \notin event.failing)
        => /\ jobs[response.job_id].status = "COMPLETED"
           /\ jobs[response.job_id].result.Sentiment \in SENTIMENT_TYPES


-----------------------------------------------------------------------------
(* _is_expired on the items that a table can hold, those without a ttl and
   those whose ttl is not a number included. *)

MaxExpiryClock == 8   \* the clock of the checks runs over 0..MaxExpiryClock

\* The value of item.get('ttl'): None when the item has no ttl, a string,
\* or a number of seconds
NoTtl == [py |-> "None"]
StrTtl(s) == [py |-> "str", s |-> s]
IntTtl(n) == [py |-> "int", n |-> n]

\* 'not ttl': None, "" and 0
Falsy(ttl) ==
    \/ ttl.py = "None"
    \/ ttl.py = "str" /\ ttl.s = ""
    \/ ttl.py = "int" /\ ttl.n = 0

\* _is_expired of an item with the ttl at the time ts: what it returns, or
\* the TypeError of 'current_time > ttl' for a ttl that is a string
IsExpiredOutcome(ttl, ts) ==
    IF Falsy(ttl) THEN CacheReturn("bool", TRUE)
    ELSE IF ttl.py = "str" THEN Raised("TypeError")
    ELSE CacheReturn("bool", ts > ttl.n)

IsExpiredCall(ttl) ==
    /\ event' = CacheCall("cache._is_expired",
                          [ttl |-> ttl, current_time |-> now], {})
    /\ calls' = <<>>
    /\ response' = IsExpiredOutcome(ttl, now)
    /\ UNCHANGED <<jobs, documents, executions, issued, cache, now,
                   workflow, pending>>

\* {}, {"ttl": ""}, {"ttl": "invalid"}, and the ttls around the clock
ExpiryTtls ==
    {NoTtl, StrTtl(""), StrTtl("invalid")}
        \cup {IntTtl(n) : n \in 0..(MaxExpiryClock + 1)}

CheckExpiry == \E ttl \in ExpiryTtls : IsExpiredCall(ttl)

ExpiryTick ==
    /\ now < MaxExpiryClock
    /\ now' = now + 1
    /\ UNCHANGED <<jobs, documents, executions, issued, cache,
                   event, calls, response, workflow, pending>>

NextExpiry == CheckExpiry \/ ExpiryTick

SpecExpiry == Init /\ [][NextExpiry]_vars

\* C39: _is_expired returns True without raising for an item whose ttl is
\* missing, empty or not a number, and for a numeric ttl it returns True
\* exactly when the current time (a time after the epoch) is greater than
\* the ttl
C39_IsExpiredTotal ==
    event.handler = "cache._is_expired" =>
        LET ttl == event.body.ttl
            current_time == event.body.current_time
        IN
        /\ response.kind # "raised"
        /\ ttl.py # "int" => response.value = TRUE
        /\ (ttl.py = "int" /\ current_time > 0)
               => (response.value <=> current_time > ttl.n)

=============================================================================
